---- MODULE Spec2Model ----
(***************************************************************************)
(* Model of the fixed-size worker pool of                                  *)
(* src/implementations/04_workerpool.cpp (class ThreadPool), and of the    *)
(* two producer/consumer programs                                          *)
(* src/pre-requisites/implementations/00_producer_consumer.cpp and         *)
(* src/fundamentals/implementations/03_producer_consumer_semaphore.cpp.    *)
(*                                                                         *)
(* The three are separate programs.  Each has its own variables, actions   *)
(* and specification (Spec and FairSpec for the pool, PCSpec and           *)
(* PCFairSpec for the bounded buffer, SemSpec for the semaphore hand-off); *)
(* a specification runs one program and leaves the variables of the        *)
(* others at rest.                                                         *)
(*                                                                         *)
(* The pool.                                                               *)
(* Threads: the thread that constructs the pool, numOfWorkers worker       *)
(* threads running worker_loop (each starts as soon as it is spawned), a   *)
(* client                                                                  *)
(* thread calling enqueue, and the owner thread that runs the body of      *)
(* ~ThreadPool.  Every statement that touches the mutex, the condition     *)
(* variable, the queue or the stop flag is one step.                       *)
(*                                                                         *)
(* The body of ~ThreadPool (lines 97-107) is the pool's shutdown           *)
(* operation.  The model covers the statements of that body; the           *)
(* destruction of the members that follows it in C++ is not part of the    *)
(* model, so the body may be run again and enqueue may still be called     *)
(* after it has returned.                                                  *)
(***************************************************************************)
EXTENDS Integers, Sequences, FiniteSets, TLC

\* ---- bounds of the model -------------------------------------------------
MaxWorkers == 2     \* numOfWorkers ranges over 0..MaxWorkers
MaxJobs == 2        \* enqueue calls made by the client thread, in order
MaxShutdowns == 2   \* times the body of ~ThreadPool is run

\* Job k is the argument of the client thread's k-th call of enqueue.
Jobs == 1..MaxJobs

NoJob == 0
NoThread == <<"none", 0>>
WorkerThread(w) == <<"worker", w>>
ClientThread == <<"client", 0>>
OwnerThread == <<"owner", 0>>

VARIABLES
    numOfWorkers,  \* constructor argument
    ci,            \* loop index i of the constructor: workers spawned so far
    constructed,   \* the constructor has returned
    stop,          \* bool stop
    jobs,          \* queue<function<void()>> jobs
    mu,            \* mutex mu: the thread that holds it, or NoThread
    wpc,           \* position of each worker in worker_loop
    wjob,          \* the local variable `job` of each worker
    joinable,      \* workers[i].joinable()
    spc,           \* position of the client thread in enqueue
    snext,         \* the job of the client thread's current or next enqueue call
    sdpc,          \* position of the owner thread in ~ThreadPool
    ji,            \* loop index of `for (auto &w : workers)`
    sdRuns,        \* completed runs of the body of ~ThreadPool
    crash,         \* "none", or why std::terminate was called
    dequeuedBy,    \* history: the workers that removed each job from the queue
    started,       \* history: jobs for which job() has been called
    execCount,     \* history: times each job ran to completion
    returnedBefore,\* history: jobs whose enqueue had returned when ~ThreadPool began
    queuedAtStop   \* history: contents of the queue when stop was first set

vars == <<numOfWorkers, ci, constructed, stop, jobs, mu, wpc, wjob, joinable, spc, snext, sdpc,
          ji, sdRuns, crash, dequeuedBy, started, execCount, returnedBefore,
          queuedAtStop>>

Workers == 1..numOfWorkers

Range(q) == {q[i] : i \in 1..Len(q)}

\* ---- 00_producer_consumer.cpp: state --------------------------------------
MaxItems == 3       \* itemsToProduce ranges over 0..MaxItems
\* the capacity of the buffer.  The source sets it to 100 (line 8); the model
\* scales it down, below MaxItems, so that the producer meets a full buffer
maxBufferSize == 2
MaxSpurious == 2    \* spurious returns of cond.wait in one run

VARIABLES
    itemsToProduce, \* main's itemsToProduce, the argument of both threads
    buffer,         \* deque<int> buffer
    mut,            \* mutex mut: "producer", "consumer" or "none"
    ppc,            \* position of the producer thread
    val,            \* the producer's parameter val
    cpc,            \* position of the consumer thread
    cons_i,         \* the consumer's loop index i
    cval,           \* the consumer's local val
    pcCrash,        \* "none", or "pop_empty" once an empty deque was popped
    spurious,       \* number of spurious returns of cond.wait so far
    pushed,         \* history: number of push_back calls
    popped          \* history: number of pop_back calls

pcVars == <<itemsToProduce, buffer, mut, ppc, val, cpc, cons_i, cval, pcCrash,
            spurious, pushed, popped>>

\* ---- 03_producer_consumer_semaphore.cpp: state ----------------------------
size == 5           \* #define size 5
MaxRounds == 3      \* rounds of the endless loop of produce() that are run

VARIABLES
    signal_to_producer, \* counter of the binary semaphore signal_to_producer
    signal_to_consumer, \* counter of the binary semaphore signal_to_consumer
    sbuffer,            \* int buffer[size]
    prodpc,             \* position of the thread running produce()
    produce_i,          \* loop index i of produce()
    conspc,             \* position of the thread running consume()
    consume_i,          \* loop index i of consume()
    semCrash,           \* "none", or "overflow" once a semaphore at its
                        \* maximum was released
    producedRounds,     \* history: completed rounds of produce()
    consumedRounds      \* history: completed rounds of consume()

semVars == <<signal_to_producer, signal_to_consumer, sbuffer, prodpc, produce_i,
             conspc, consume_i, semCrash, producedRounds, consumedRounds>>

\* the variables a specification of the pool leaves at rest
notPool == <<pcVars, semVars>>

\* the variables a specification of the bounded buffer leaves at rest
notPC == <<vars, semVars>>

\* the variables a specification of the semaphore program leaves at rest
notSem == <<vars, pcVars>>

\* the semaphore program with its threads not started: the globals as they
\* are defined (lines 9-13); a global array is zero-initialised
SemAtRest ==
    /\ signal_to_producer = 1
    /\ signal_to_consumer = 0
    /\ sbuffer = [k \in 0..(size - 1) |-> 0]
    /\ prodpc = "unstarted" /\ produce_i = 0
    /\ conspc = "unstarted" /\ consume_i = 0
    /\ semCrash = "none"
    /\ producedRounds = 0 /\ consumedRounds = 0

\* the bounded-buffer program with its threads not started: the globals as
\* they are defined (lines 8-11), nothing to produce
PCAtRest ==
    /\ itemsToProduce = 0
    /\ buffer = <<>>
    /\ mut = "none"
    /\ ppc = "unstarted" /\ val = 0
    /\ cpc = "unstarted" /\ cons_i = 0 /\ cval = 0
    /\ pcCrash = "none"
    /\ spurious = 0
    /\ pushed = 0 /\ popped = 0

\* ---- the statements of the source, as operators ---------------------------

\* (variant: the loop stops one worker short: i < numOfWorkers - 1)
LoopOneShort(i) == i < numOfWorkers - 1

\* the constructor's loop test, line 65: i < numOfWorkers
LoopContinues(i) == i < numOfWorkers

\* (variant: the predicate forgets the queue: return stop;)
WakeOnStopOnly == stop

\* cv.wait's predicate, line 42: stop || !jobs.empty()
WakePredicate == stop \/ jobs # <<>>

\* (variant: the negation is lost: if (stop && !jobs.empty()) return;)
InvertedExit == stop /\ jobs # <<>>

\* (variant: the exit test without the queue: if (stop) return;)
ExitOnStop == stop

\* the exit test, line 44: stop && jobs.empty()
ExitCondition == stop /\ jobs = <<>>

\* (variant: jobs.back() in place of jobs.front())
Back(q) == q[Len(q)]

\* jobs.front(), line 48
Front(q) == Head(q)

\* (variant: jobs.pop() is written twice)
PopTwo(q) == IF Len(q) >= 2 THEN Tail(Tail(q)) ELSE Tail(q)

\* (variant: the pop is missing and the head stays in the queue)
PopKeeps(q) == q

\* jobs.pop(), line 49
Pop(q) == Tail(q)

\* (variant: lock.unlock() is missing and job() runs with the mutex held)
WorkerKeepsLock(w) == WorkerThread(w)

\* lock.unlock(), line 52: the holder of the mutex afterwards
WorkerUnlock(w) == NoThread

\* (variant: enqueue pushes without taking the mutex)
EnqueueNoLock == NoThread

\* lock_guard<mutex> lock(mu) in enqueue, line 82: the holder afterwards
EnqueueLock == ClientThread

\* (variant: cv.notify_all() in enqueue: every blocked worker is woken)
NotifyEveryone(blocked) == {blocked}

\* cv.notify_one(), line 89: the sets of blocked workers it may wake -- one
\* of them, or none when nobody is blocked
NotifyOne(blocked) ==
    IF blocked = {} THEN {{}} ELSE {{w} : w \in blocked}

\* (variant: w.detach() in place of w.join(): no waiting)
JoinNoWait(w) == TRUE

\* w.join(), line 107, returns once thread w has returned from worker_loop
JoinReturns(w) == wpc[w] = "stopped"

\* (variant: the new job goes to the head of the queue)
PushFront(q, j) == <<j>> \o q

\* (variant: a push that is refused once stop is set)
PushUnlessStopped(q, j) == IF stop THEN q ELSE Append(q, j)

\* jobs.push(std::move(job)), line 85
Push(q, j) == Append(q, j)

\* (variant: stop = !stop)
ToggleStop == ~stop

\* stop = true, line 99
StopValue == TRUE

\* (variant: cv.notify_one() in the destructor: all but one stay blocked)
NotifyOneOnly(blocked) ==
    IF blocked = {} THEN {} ELSE blocked \ {CHOOSE w \in blocked : TRUE}

\* cv.notify_all(), line 103: the blocked workers that stay blocked
NotifyAll(blocked) == {}

\* (variant: the joinable() test is missing)
AlwaysJoinable(w) == TRUE

\* w.joinable(), line 106
ThreadJoinable(w) == joinable[w]

\* ---- derived views --------------------------------------------------------

\* jobs whose push (line 85) has been executed
Accepted == {j \in Jobs : j < snext \/ (j = snext /\ spc \in {"unlock", "notify"})}

\* jobs whose enqueue call has returned
Returned == {j \in Jobs : j < snext}

AllStopped == \A w \in Workers : wpc[w] = "stopped"

Alive == crash = "none"

\* ---- construction: ThreadPool(numOfWorkers), lines 63-71 ------------------

\* the constructor is entered: the member initialisers have run (stop(false),
\* an empty vector and an empty queue) and no worker has been spawned yet
Init ==
    /\ numOfWorkers \in 0..MaxWorkers
    /\ ci = 0
    /\ constructed = FALSE
    /\ stop = FALSE
    /\ jobs = <<>>
    /\ mu = NoThread
    /\ wpc = [w \in 1..numOfWorkers |-> "unborn"]
    /\ wjob = [w \in 1..numOfWorkers |-> NoJob]
    /\ joinable = [w \in 1..numOfWorkers |-> FALSE]
    /\ spc = "idle"
    /\ snext = 1
    /\ sdpc = "idle"
    /\ ji = 1
    /\ sdRuns = 0
    /\ crash = "none"
    /\ dequeuedBy = [j \in Jobs |-> <<>>]
    /\ started = {}
    /\ execCount = [j \in Jobs |-> 0]
    /\ returnedBefore = {}
    /\ queuedAtStop = {}
    /\ PCAtRest
    /\ SemAtRest

hist == <<dequeuedBy, started, execCount, returnedBefore, queuedAtStop>>
ownerVars == <<sdpc, ji, sdRuns, joinable>>
clientVars == <<spc, snext>>
ctorVars == <<ci, constructed>>

\* lines 65-70: workers.emplace_back([this]{ worker_loop(); }) starts a thread
\* at the top of worker_loop
CSpawn ==
    /\ Alive /\ ~constructed /\ LoopContinues(ci)
    /\ ci' = ci + 1
    /\ wpc' = [wpc EXCEPT ![ci + 1] = "lock"]
    /\ joinable' = [joinable EXCEPT ![ci + 1] = TRUE]
    /\ UNCHANGED <<notPool, numOfWorkers, constructed, stop, jobs, mu, wjob, sdpc, ji, sdRuns,
                   crash, hist, clientVars>>

\* line 71: the loop is over and the constructor returns
CReturn ==
    /\ Alive /\ ~constructed /\ ~LoopContinues(ci)
    /\ constructed' = TRUE
    /\ UNCHANGED <<notPool, numOfWorkers, ci, stop, jobs, mu, wpc, wjob, crash, hist,
                   ownerVars, clientVars>>

CtorStep == CSpawn \/ CReturn

\* ---- worker_loop, lines 30-57 ---------------------------------------------

\* line 38: std::unique_lock<mutex> lock(mu)
WLock(w) ==
    /\ Alive /\ wpc[w] = "lock" /\ mu = NoThread
    /\ mu' = WorkerThread(w)
    /\ wpc' = [wpc EXCEPT ![w] = "wait"]
    /\ UNCHANGED <<notPool, ctorVars, numOfWorkers, stop, jobs, wjob, crash, hist, ownerVars, clientVars>>

\* lines 41-42: cv.wait(lock, pred) evaluates pred with the mutex held and,
\* when it is false, releases the mutex and blocks
WWait(w) ==
    /\ Alive /\ wpc[w] = "wait" /\ mu = WorkerThread(w)
    /\ IF WakePredicate
          THEN /\ wpc' = [wpc EXCEPT ![w] = "check"]
               /\ mu' = mu
          ELSE /\ wpc' = [wpc EXCEPT ![w] = "blocked"]
               /\ mu' = NoThread
    /\ UNCHANGED <<notPool, ctorVars, numOfWorkers, stop, jobs, wjob, crash, hist, ownerVars, clientVars>>

\* a blocked cv.wait may return without any notification
SpuriousWake(w) ==
    /\ Alive /\ wpc[w] = "blocked"
    /\ wpc' = [wpc EXCEPT ![w] = "relock"]
    /\ UNCHANGED <<notPool, ctorVars, numOfWorkers, stop, jobs, mu, wjob, crash, hist, ownerVars, clientVars>>

\* a woken cv.wait re-acquires the mutex, then evaluates the predicate again
WRelock(w) ==
    /\ Alive /\ wpc[w] = "relock" /\ mu = NoThread
    /\ mu' = WorkerThread(w)
    /\ wpc' = [wpc EXCEPT ![w] = "wait"]
    /\ UNCHANGED <<notPool, ctorVars, numOfWorkers, stop, jobs, wjob, crash, hist, ownerVars, clientVars>>

\* lines 44-45: if (stop && jobs.empty()) return;  the return destroys `lock`
WCheck(w) ==
    /\ Alive /\ wpc[w] = "check" /\ mu = WorkerThread(w)
    /\ IF ExitCondition
          THEN /\ wpc' = [wpc EXCEPT ![w] = "stopped"]
               /\ mu' = NoThread
          ELSE /\ wpc' = [wpc EXCEPT ![w] = "fetch"]
               /\ mu' = mu
    /\ UNCHANGED <<notPool, ctorVars, numOfWorkers, stop, jobs, wjob, crash, hist, ownerVars, clientVars>>

\* lines 48-49: job = std::move(jobs.front()); jobs.pop();
\* front() and pop() of an empty std::queue are undefined; the model records
\* the attempt as a crash
WFetch(w) ==
    /\ Alive /\ wpc[w] = "fetch" /\ mu = WorkerThread(w)
    /\ IF jobs = <<>>
          THEN /\ crash' = "pop_empty"
               /\ UNCHANGED <<jobs, wjob, wpc, dequeuedBy>>
          ELSE /\ wjob' = [wjob EXCEPT ![w] = Front(jobs)]
               /\ jobs' = Pop(jobs)
               /\ dequeuedBy' = [dequeuedBy EXCEPT ![Front(jobs)] = Append(@, w)]
               /\ wpc' = [wpc EXCEPT ![w] = "unlock"]
               /\ crash' = crash
    /\ UNCHANGED <<notPool, ctorVars, numOfWorkers, stop, mu, started, execCount, returnedBefore,
                   queuedAtStop, ownerVars, clientVars>>

\* line 52: lock.unlock()
WUnlock(w) ==
    /\ Alive /\ wpc[w] = "unlock" /\ mu = WorkerThread(w)
    /\ mu' = WorkerUnlock(w)
    /\ wpc' = [wpc EXCEPT ![w] = "call"]
    /\ UNCHANGED <<notPool, ctorVars, numOfWorkers, stop, jobs, wjob, crash, hist, ownerVars, clientVars>>

\* line 55: job() is called
WCall(w) ==
    /\ Alive /\ wpc[w] = "call"
    /\ started' = started \cup {wjob[w]}
    /\ wpc' = [wpc EXCEPT ![w] = "running"]
    /\ UNCHANGED <<notPool, ctorVars, numOfWorkers, stop, jobs, mu, wjob, crash, dequeuedBy, execCount,
                   returnedBefore, queuedAtStop, ownerVars, clientVars>>

\* line 55: job() returns, or raises.  Nothing catches an exception that
\* leaves job(): it leaves the thread function and std::terminate ends the
\* process.
WRun(w) ==
    /\ Alive /\ wpc[w] = "running"
    /\ \E raises \in BOOLEAN :
         IF raises
            THEN /\ crash' = "job_fault"
                 /\ UNCHANGED <<wpc, wjob, execCount>>
            ELSE /\ execCount' = [execCount EXCEPT ![wjob[w]] = @ + 1]
                 /\ wjob' = [wjob EXCEPT ![w] = NoJob]
                 /\ wpc' = [wpc EXCEPT ![w] = "lock"]
                 /\ crash' = crash
    /\ UNCHANGED <<notPool, ctorVars, numOfWorkers, stop, jobs, mu, dequeuedBy, started, returnedBefore,
                   queuedAtStop, ownerVars, clientVars>>

WorkerStep(w) ==
    \/ WLock(w) \/ WWait(w) \/ WRelock(w) \/ WCheck(w)
    \/ WFetch(w) \/ WUnlock(w) \/ WCall(w) \/ WRun(w)

\* ---- enqueue, lines 73-90 -------------------------------------------------

\* the client thread calls enqueue with its next job; the pool exists once
\* its constructor has returned
SCall ==
    /\ Alive /\ constructed /\ spc = "idle" /\ snext <= MaxJobs
    /\ spc' = "lock"
    /\ UNCHANGED <<notPool, ctorVars, numOfWorkers, stop, jobs, mu, wpc, wjob, snext, crash, hist, ownerVars>>

\* line 82: lock_guard<mutex> lock(mu)
SLock ==
    /\ Alive /\ spc = "lock" /\ mu = NoThread
    /\ mu' = EnqueueLock
    /\ spc' = "push"
    /\ UNCHANGED <<notPool, ctorVars, numOfWorkers, stop, jobs, wpc, wjob, snext, crash, hist, ownerVars>>

\* line 85: jobs.push(std::move(job))
SPush ==
    /\ Alive /\ spc = "push" /\ mu = ClientThread
    /\ jobs' = Push(jobs, snext)
    /\ spc' = "unlock"
    /\ UNCHANGED <<notPool, ctorVars, numOfWorkers, stop, mu, wpc, wjob, snext, crash, hist, ownerVars>>

\* line 86: the lock_guard goes out of scope
SUnlock ==
    /\ Alive /\ spc = "unlock" /\ mu = ClientThread
    /\ mu' = NoThread
    /\ spc' = "notify"
    /\ UNCHANGED <<notPool, ctorVars, numOfWorkers, stop, jobs, wpc, wjob, snext, crash, hist, ownerVars>>

\* line 89: cv.notify_one() unblocks one of the blocked workers, if there is
\* one; then enqueue returns
SNotify ==
    /\ Alive /\ spc = "notify"
    /\ \E woken \in NotifyOne({w \in Workers : wpc[w] = "blocked"}) :
          wpc' = [w \in Workers |-> IF w \in woken THEN "relock" ELSE wpc[w]]
    /\ spc' = "idle"
    /\ snext' = snext + 1
    /\ UNCHANGED <<notPool, ctorVars, numOfWorkers, stop, jobs, mu, wjob, crash, hist, ownerVars>>

ClientStep == SLock \/ SPush \/ SUnlock \/ SNotify

\* ---- ~ThreadPool, lines 92-108 --------------------------------------------

\* the owner thread enters the body of ~ThreadPool
DCall ==
    /\ Alive /\ constructed /\ sdpc = "idle" /\ sdRuns < MaxShutdowns
    /\ sdpc' = "lock"
    /\ returnedBefore' = IF sdRuns = 0 THEN Returned ELSE returnedBefore
    /\ UNCHANGED <<notPool, ctorVars, numOfWorkers, stop, jobs, mu, wpc, wjob, joinable, ji, sdRuns, crash,
                   dequeuedBy, started, execCount, queuedAtStop, clientVars>>

\* line 98: lock_guard<mutex> lock(mu)
DLock ==
    /\ Alive /\ sdpc = "lock" /\ mu = NoThread
    /\ mu' = OwnerThread
    /\ sdpc' = "set"
    /\ UNCHANGED <<notPool, ctorVars, numOfWorkers, stop, jobs, wpc, wjob, joinable, ji, sdRuns, crash,
                   hist, clientVars>>

\* line 99: stop = true
DSet ==
    /\ Alive /\ sdpc = "set" /\ mu = OwnerThread
    /\ stop' = StopValue
    /\ queuedAtStop' = IF stop THEN queuedAtStop ELSE Range(jobs)
    /\ sdpc' = "unlock"
    /\ UNCHANGED <<notPool, ctorVars, numOfWorkers, jobs, mu, wpc, wjob, joinable, ji, sdRuns, crash,
                   dequeuedBy, started, execCount, returnedBefore, clientVars>>

\* line 100: the lock_guard goes out of scope
DUnlock ==
    /\ Alive /\ sdpc = "unlock" /\ mu = OwnerThread
    /\ mu' = NoThread
    /\ sdpc' = "notify"
    /\ UNCHANGED <<notPool, ctorVars, numOfWorkers, stop, jobs, wpc, wjob, joinable, ji, sdRuns, crash,
                   hist, clientVars>>

\* line 103: cv.notify_all()
DNotify ==
    /\ Alive /\ sdpc = "notify"
    /\ LET blocked == {w \in Workers : wpc[w] = "blocked"}
       IN wpc' = [w \in Workers |->
                    IF w \in blocked /\ w \notin NotifyAll(blocked)
                       THEN "relock" ELSE wpc[w]]
    /\ sdpc' = "join"
    /\ ji' = 1
    /\ UNCHANGED <<notPool, ctorVars, numOfWorkers, stop, jobs, mu, wjob, joinable, sdRuns, crash,
                   hist, clientVars>>

\* lines 105-107: for (auto &w : workers) if (w.joinable()) w.join();
\* join() blocks until the thread has returned from worker_loop; join() of a
\* thread that is not joinable throws std::system_error, which leaves the
\* destructor and ends the process
DJoin ==
    /\ Alive /\ sdpc = "join" /\ ji <= numOfWorkers
    /\ IF ThreadJoinable(ji)
          THEN IF joinable[ji]
                  THEN /\ JoinReturns(ji)
                       /\ joinable' = [joinable EXCEPT ![ji] = FALSE]
                       /\ ji' = ji + 1
                       /\ crash' = crash
                  ELSE /\ crash' = "join_error"
                       /\ UNCHANGED <<joinable, ji>>
          ELSE /\ ji' = ji + 1
               /\ UNCHANGED <<joinable, crash>>
    /\ UNCHANGED <<notPool, ctorVars, numOfWorkers, stop, jobs, mu, wpc, wjob, sdpc, sdRuns, hist, clientVars>>

\* line 108: the loop is over and the body returns
DReturn ==
    /\ Alive /\ sdpc = "join" /\ ji > numOfWorkers
    /\ sdpc' = "idle"
    /\ sdRuns' = sdRuns + 1
    /\ ji' = 1
    /\ UNCHANGED <<notPool, ctorVars, numOfWorkers, stop, jobs, mu, wpc, wjob, joinable, crash, hist, clientVars>>

OwnerStep == DLock \/ DSet \/ DUnlock \/ DNotify \/ DJoin \/ DReturn

\* ---- the program ----------------------------------------------------------
Next ==
    \/ CSpawn
    \/ CReturn
    \/ \E w \in Workers : WLock(w)
    \/ \E w \in Workers : WWait(w)
    \/ \E w \in Workers : SpuriousWake(w)
    \/ \E w \in Workers : WRelock(w)
    \/ \E w \in Workers : WCheck(w)
    \/ \E w \in Workers : WFetch(w)
    \/ \E w \in Workers : WUnlock(w)
    \/ \E w \in Workers : WCall(w)
    \/ \E w \in Workers : WRun(w)
    \/ SCall
    \/ ClientStep
    \/ DCall
    \/ OwnerStep

Spec == Init /\ [][Next]_vars

\* Every thread that can take a step of its code eventually takes one.  The
\* client's decision to call enqueue, the owner's decision to destroy the pool
\* and spurious wake-ups are not forced.
FairSpec ==
    /\ Spec
    /\ \A w \in 1..MaxWorkers : WF_vars(w \in Workers /\ WorkerStep(w))
    /\ WF_vars(ClientStep)
    /\ WF_vars(OwnerStep)
    /\ WF_vars(CtorStep)

TypeOK ==
    /\ numOfWorkers \in 0..MaxWorkers
    /\ stop \in BOOLEAN
    /\ Range(jobs) \subseteq Jobs
    /\ sdRuns \in 0..MaxShutdowns

\* =========================================================================
\* 00_producer_consumer.cpp: one producer thread and one consumer thread
\* share a mutex, one condition variable and a bounded deque
\* =========================================================================

\* the pool with no worker and nothing constructed, submitted or shut down
PoolAtRest ==
    /\ numOfWorkers = 0
    /\ ci = 0
    /\ constructed = FALSE
    /\ stop = FALSE
    /\ jobs = <<>>
    /\ mu = NoThread
    /\ wpc = <<>>
    /\ wjob = <<>>
    /\ joinable = <<>>
    /\ spc = "idle"
    /\ snext = 1
    /\ sdpc = "idle"
    /\ ji = 1
    /\ sdRuns = 0
    /\ crash = "none"
    /\ dequeuedBy = [j \in Jobs |-> <<>>]
    /\ started = {}
    /\ execCount = [j \in Jobs |-> 0]
    /\ returnedBefore = {}
    /\ queuedAtStop = {}

\* line 49: thread t2(consumer, itemsToProduce)
totalToConsume == itemsToProduce

PCAlive == pcCrash = "none"

\* (variant: the bound is tested with <= : one item too many fits)
NotFullOffByOne == Len(buffer) <= maxBufferSize

\* the producer's wait predicate, line 19: buffer.size() < maxBufferSize
NotFull == Len(buffer) < maxBufferSize

\* (variant: the consumer's predicate is always true)
NotEmptyAlways == TRUE

\* the consumer's wait predicate, line 34: !buffer.empty()
NotEmpty == buffer # <<>>

\* buffer.push_back(val), line 20
PushBack(q, v) == Append(q, v)

\* buffer.back(), line 36
BufferBack(q) == q[Len(q)]

\* buffer.pop_back(), line 37
PopBack(q) == SubSeq(q, 1, Len(q) - 1)

\* (variant: the notification is missing)
NotifyNobody(blocked) == {{}}

\* cond.notify_one(), lines 24 and 41: the sets of blocked threads it may
\* wake -- one of them, or none when nobody is blocked
CondNotifyOne(blocked) ==
    IF blocked = {} THEN {{}} ELSE {{t} : t \in blocked}

\* the threads blocked in cond.wait, waiting for a notification
CondBlocked ==
    (IF ppc = "blocked" THEN {"producer"} ELSE {})
        \cup (IF cpc = "blocked" THEN {"consumer"} ELSE {})

\* lines 47-49: main has started both threads; each is at its loop test
PCInit ==
    /\ PoolAtRest
    /\ SemAtRest
    /\ itemsToProduce \in 0..MaxItems
    /\ buffer = <<>>
    /\ mut = "none"
    /\ ppc = "test" /\ val = itemsToProduce
    /\ cpc = "test" /\ cons_i = 0 /\ cval = 0
    /\ pcCrash = "none"
    /\ spurious = 0
    /\ pushed = 0 /\ popped = 0

prodLocals == <<ppc, val>>
consLocals == <<cpc, cons_i, cval>>

\* ---- producer(val), lines 13-26 --------------------------------------------

\* line 15: while (val > 0); the function returns when the test fails
ProdTest ==
    /\ PCAlive /\ ppc = "test"
    /\ ppc' = IF val > 0 THEN "lock" ELSE "done"
    /\ UNCHANGED <<notPC, spurious, itemsToProduce, buffer, mut, val, consLocals, pcCrash,
                   pushed, popped>>

\* line 17: unique_lock<mutex> locker(mut)
ProdLock ==
    /\ PCAlive /\ ppc = "lock" /\ mut = "none"
    /\ mut' = "producer"
    /\ ppc' = "wait"
    /\ UNCHANGED <<notPC, spurious, itemsToProduce, buffer, val, consLocals, pcCrash,
                   pushed, popped>>

\* lines 18-19: cond.wait(locker, pred) evaluates pred with the mutex held
\* and, when it is false, releases the mutex and blocks
ProdWait ==
    /\ PCAlive /\ ppc = "wait" /\ mut = "producer"
    /\ IF NotFull
          THEN /\ ppc' = "push"
               /\ mut' = mut
          ELSE /\ ppc' = "blocked"
               /\ mut' = "none"
    /\ UNCHANGED <<notPC, spurious, itemsToProduce, buffer, val, consLocals, pcCrash,
                   pushed, popped>>

\* a blocked cond.wait may return without any notification; the model lets
\* this happen MaxSpurious times in a run
ProdSpuriousWake ==
    /\ PCAlive /\ ppc = "blocked" /\ spurious < MaxSpurious
    /\ ppc' = "relock"
    /\ spurious' = spurious + 1
    /\ UNCHANGED <<notPC, itemsToProduce, buffer, mut, val, consLocals, pcCrash,
                   pushed, popped>>

\* a woken cond.wait re-acquires the mutex, then evaluates the predicate again
ProdRelock ==
    /\ PCAlive /\ ppc = "relock" /\ mut = "none"
    /\ mut' = "producer"
    /\ ppc' = "wait"
    /\ UNCHANGED <<notPC, spurious, itemsToProduce, buffer, val, consLocals, pcCrash,
                   pushed, popped>>

\* lines 20-22: buffer.push_back(val); val--;
ProdPush ==
    /\ PCAlive /\ ppc = "push" /\ mut = "producer"
    /\ buffer' = PushBack(buffer, val)
    /\ val' = val - 1
    /\ pushed' = pushed + 1
    /\ ppc' = "unlock"
    /\ UNCHANGED <<notPC, spurious, itemsToProduce, mut, consLocals, pcCrash, popped>>

\* line 23: locker.unlock()
ProdUnlock ==
    /\ PCAlive /\ ppc = "unlock" /\ mut = "producer"
    /\ mut' = "none"
    /\ ppc' = "notify"
    /\ UNCHANGED <<notPC, spurious, itemsToProduce, buffer, val, consLocals, pcCrash,
                   pushed, popped>>

\* line 24: cond.notify_one(); then back to the loop test
ProdNotify ==
    /\ PCAlive /\ ppc = "notify"
    /\ \E woken \in CondNotifyOne(CondBlocked) :
          cpc' = IF "consumer" \in woken THEN "relock" ELSE cpc
    /\ ppc' = "test"
    /\ UNCHANGED <<notPC, spurious, itemsToProduce, buffer, mut, val, cons_i, cval, pcCrash,
                   pushed, popped>>

ProducerStep ==
    \/ ProdTest \/ ProdLock \/ ProdWait \/ ProdRelock
    \/ ProdPush \/ ProdUnlock \/ ProdNotify

\* ---- consumer(totalToConsume), lines 28-43 ---------------------------------

\* line 30: i < totalToConsume; the function returns when the test fails
ConsTest ==
    /\ PCAlive /\ cpc = "test"
    /\ cpc' = IF cons_i < totalToConsume THEN "lock" ELSE "done"
    /\ UNCHANGED <<notPC, spurious, itemsToProduce, buffer, mut, prodLocals, cons_i, cval,
                   pcCrash, pushed, popped>>

\* line 32: unique_lock<mutex> locker(mut)
ConsLock ==
    /\ PCAlive /\ cpc = "lock" /\ mut = "none"
    /\ mut' = "consumer"
    /\ cpc' = "wait"
    /\ UNCHANGED <<notPC, spurious, itemsToProduce, buffer, prodLocals, cons_i, cval, pcCrash,
                   pushed, popped>>

\* lines 33-34: cond.wait(locker, pred)
ConsWait ==
    /\ PCAlive /\ cpc = "wait" /\ mut = "consumer"
    /\ IF NotEmpty
          THEN /\ cpc' = "pop"
               /\ mut' = mut
          ELSE /\ cpc' = "blocked"
               /\ mut' = "none"
    /\ UNCHANGED <<notPC, spurious, itemsToProduce, buffer, prodLocals, cons_i, cval, pcCrash,
                   pushed, popped>>

\* a blocked cond.wait may return without any notification
\* (MaxSpurious times in a run)
ConsSpuriousWake ==
    /\ PCAlive /\ cpc = "blocked" /\ spurious < MaxSpurious
    /\ cpc' = "relock"
    /\ spurious' = spurious + 1
    /\ UNCHANGED <<notPC, itemsToProduce, buffer, mut, prodLocals, cons_i, cval,
                   pcCrash, pushed, popped>>

\* a woken cond.wait re-acquires the mutex, then evaluates the predicate again
ConsRelock ==
    /\ PCAlive /\ cpc = "relock" /\ mut = "none"
    /\ mut' = "consumer"
    /\ cpc' = "wait"
    /\ UNCHANGED <<notPC, spurious, itemsToProduce, buffer, prodLocals, cons_i, cval, pcCrash,
                   pushed, popped>>

\* lines 36-37: int val = buffer.back(); buffer.pop_back();
\* back() and pop_back() of an empty deque are undefined; the model records
\* the attempt as a crash
ConsPop ==
    /\ PCAlive /\ cpc = "pop" /\ mut = "consumer"
    /\ IF buffer = <<>>
          THEN /\ pcCrash' = "pop_empty"
               /\ UNCHANGED <<buffer, cval, popped, cpc>>
          ELSE /\ cval' = BufferBack(buffer)
               /\ buffer' = PopBack(buffer)
               /\ popped' = popped + 1
               /\ cpc' = "unlock"
               /\ pcCrash' = pcCrash
    /\ UNCHANGED <<notPC, spurious, itemsToProduce, mut, prodLocals, cons_i, pushed>>

\* line 40: locker.unlock()
ConsUnlock ==
    /\ PCAlive /\ cpc = "unlock" /\ mut = "consumer"
    /\ mut' = "none"
    /\ cpc' = "notify"
    /\ UNCHANGED <<notPC, spurious, itemsToProduce, buffer, prodLocals, cons_i, cval, pcCrash,
                   pushed, popped>>

\* line 41: cond.notify_one(); then ++i (line 30) and back to the loop test
ConsNotify ==
    /\ PCAlive /\ cpc = "notify"
    /\ \E woken \in CondNotifyOne(CondBlocked) :
          ppc' = IF "producer" \in woken THEN "relock" ELSE ppc
    /\ cons_i' = cons_i + 1
    /\ cpc' = "test"
    /\ UNCHANGED <<notPC, spurious, itemsToProduce, buffer, mut, val, cval, pcCrash,
                   pushed, popped>>

ConsumerStep ==
    \/ ConsTest \/ ConsLock \/ ConsWait \/ ConsRelock
    \/ ConsPop \/ ConsUnlock \/ ConsNotify

PCNext ==
    \/ ProdTest \/ ProdLock \/ ProdWait \/ ProdSpuriousWake \/ ProdRelock
    \/ ProdPush \/ ProdUnlock \/ ProdNotify
    \/ ConsTest \/ ConsLock \/ ConsWait \/ ConsSpuriousWake \/ ConsRelock
    \/ ConsPop \/ ConsUnlock \/ ConsNotify

PCSpec == PCInit /\ [][PCNext]_pcVars

\* Each thread that can take a step of its code eventually takes one;
\* spurious wake-ups are not forced.  Weak fairness suffices because a run
\* has finitely many spurious wake-ups: a thread that waits for the mutex
\* is then overtaken only finitely often.
PCFairSpec ==
    /\ PCSpec
    /\ WF_pcVars(ProducerStep)
    /\ WF_pcVars(ConsumerStep)

PCTypeOK ==
    /\ itemsToProduce \in 0..MaxItems
    /\ val \in 0..MaxItems
    /\ cons_i \in 0..MaxItems
    /\ mut \in {"none", "producer", "consumer"}

\* =========================================================================
\* 03_producer_consumer_semaphore.cpp: a producer thread and a consumer
\* thread hand an array to each other through two binary semaphores
\* =========================================================================

SemAlive == semCrash = "none"

\* pow((i + 1), 3), line 25, converted to int
Cube(x) == x * x * x

\* acquire() returns only when the counter is positive
CanAcquire(c) == c > 0

\* (variant: the acquire leaves the counter as it is)
AcquireKeeps(c) == c

\* acquire(), lines 20 and 40: the counter afterwards
AfterAcquire(c) == c - 1

\* release(), lines 32 and 49: the counter afterwards
AfterRelease(c) == c + 1

\* release() of a binary semaphore whose counter is 1 is undefined
AtMaximum(c) == c >= 1

\* lines 55-56: main has started both threads; each is at its acquire
SemInit ==
    /\ PoolAtRest
    /\ PCAtRest
    /\ signal_to_producer = 1
    /\ signal_to_consumer = 0
    /\ sbuffer = [k \in 0..(size - 1) |-> 0]
    /\ prodpc = "acquire" /\ produce_i = 0
    /\ conspc = "acquire" /\ consume_i = 0
    /\ semCrash = "none"
    /\ producedRounds = 0 /\ consumedRounds = 0

produceLocals == <<prodpc, produce_i>>
consumeLocals == <<conspc, consume_i>>
semHist == <<producedRounds, consumedRounds>>

\* ---- produce(), lines 15-34 ------------------------------------------------

\* lines 20-23: signal_to_producer.acquire(); then int i = 0.  The loop of
\* line 17 is endless; the model runs MaxRounds rounds of it
ProduceAcquire ==
    /\ SemAlive /\ prodpc = "acquire" /\ producedRounds < MaxRounds
    /\ CanAcquire(signal_to_producer)
    /\ signal_to_producer' = AfterAcquire(signal_to_producer)
    /\ produce_i' = 0
    /\ prodpc' = "test"
    /\ UNCHANGED <<notSem, signal_to_consumer, sbuffer, consumeLocals, semCrash, semHist>>

\* line 23: i < size
ProduceTest ==
    /\ SemAlive /\ prodpc = "test"
    /\ prodpc' = IF produce_i < size THEN "write" ELSE "release"
    /\ UNCHANGED <<notSem, signal_to_producer, signal_to_consumer, sbuffer, produce_i,
                   consumeLocals, semCrash, semHist>>

\* line 25: buffer[i] = pow((i + 1), 3)
ProduceWrite ==
    /\ SemAlive /\ prodpc = "write"
    /\ sbuffer' = [sbuffer EXCEPT ![produce_i] = Cube(produce_i + 1)]
    /\ prodpc' = "print"
    /\ UNCHANGED <<notSem, signal_to_producer, signal_to_consumer, produce_i,
                   consumeLocals, semCrash, semHist>>

\* lines 26-27 and 23: the element is printed, the thread sleeps, i++
ProducePrint ==
    /\ SemAlive /\ prodpc = "print"
    /\ produce_i' = produce_i + 1
    /\ prodpc' = "test"
    /\ UNCHANGED <<notSem, signal_to_producer, signal_to_consumer, sbuffer,
                   consumeLocals, semCrash, semHist>>

\* line 32: signal_to_consumer.release(); then back to the acquire
ProduceRelease ==
    /\ SemAlive /\ prodpc = "release"
    /\ IF AtMaximum(signal_to_consumer)
          THEN /\ semCrash' = "overflow"
               /\ UNCHANGED <<signal_to_consumer, prodpc, producedRounds>>
          ELSE /\ signal_to_consumer' = AfterRelease(signal_to_consumer)
               /\ producedRounds' = producedRounds + 1
               /\ prodpc' = "acquire"
               /\ semCrash' = semCrash
    /\ UNCHANGED <<notSem, signal_to_producer, sbuffer, produce_i, consumeLocals,
                   consumedRounds>>

\* ---- consume(), lines 36-51 ------------------------------------------------

\* lines 40-42: signal_to_consumer.acquire(); then int i = size - 1
ConsumeAcquire ==
    /\ SemAlive /\ conspc = "acquire"
    /\ CanAcquire(signal_to_consumer)
    /\ signal_to_consumer' = AfterAcquire(signal_to_consumer)
    /\ consume_i' = size - 1
    /\ conspc' = "test"
    /\ UNCHANGED <<notSem, signal_to_producer, sbuffer, produceLocals, semCrash, semHist>>

\* line 42: i >= 0
ConsumeTest ==
    /\ SemAlive /\ conspc = "test"
    /\ conspc' = IF consume_i >= 0 THEN "read" ELSE "release"
    /\ UNCHANGED <<notSem, signal_to_producer, signal_to_consumer, sbuffer, consume_i,
                   produceLocals, semCrash, semHist>>

\* line 44: buffer[i] is read and printed
ConsumeRead ==
    /\ SemAlive /\ conspc = "read"
    /\ conspc' = "clear"
    /\ UNCHANGED <<notSem, signal_to_producer, signal_to_consumer, sbuffer, consume_i,
                   produceLocals, semCrash, semHist>>

\* lines 45-46 and 42: buffer[i] = 0, the thread sleeps, i--
ConsumeClear ==
    /\ SemAlive /\ conspc = "clear"
    /\ sbuffer' = [sbuffer EXCEPT ![consume_i] = 0]
    /\ consume_i' = consume_i - 1
    /\ conspc' = "test"
    /\ UNCHANGED <<notSem, signal_to_producer, signal_to_consumer, produceLocals,
                   semCrash, semHist>>

\* line 49: signal_to_producer.release(); then back to the acquire
ConsumeRelease ==
    /\ SemAlive /\ conspc = "release"
    /\ IF AtMaximum(signal_to_producer)
          THEN /\ semCrash' = "overflow"
               /\ UNCHANGED <<signal_to_producer, conspc, consumedRounds>>
          ELSE /\ signal_to_producer' = AfterRelease(signal_to_producer)
               /\ consumedRounds' = consumedRounds + 1
               /\ conspc' = "acquire"
               /\ semCrash' = semCrash
    /\ UNCHANGED <<notSem, signal_to_consumer, sbuffer, consume_i, produceLocals,
                   producedRounds>>

SemNext ==
    \/ ProduceAcquire \/ ProduceTest \/ ProduceWrite \/ ProducePrint
    \/ ProduceRelease
    \/ ConsumeAcquire \/ ConsumeTest \/ ConsumeRead \/ ConsumeClear
    \/ ConsumeRelease

SemSpec == SemInit /\ [][SemNext]_semVars

SemTypeOK ==
    /\ signal_to_producer \in 0..1
    /\ signal_to_consumer \in 0..1
    /\ produce_i \in 0..size
    /\ consume_i \in -1..(size - 1)
    /\ producedRounds \in 0..MaxRounds

\* =========================================================================
\* Properties
\* =========================================================================

\* the owner's first run of the body of ~ThreadPool has returned
ShutdownReturned == sdRuns >= 1

\* C1 -- No loss, no duplication: in a pool of at least one worker, once
\* ~ThreadPool has returned, every job whose enqueue had returned before
\* ~ThreadPool began has been run to completion exactly once.
C1_NoLossNoDuplication ==
    (numOfWorkers >= 1 /\ ShutdownReturned) =>
        \A j \in returnedBefore : execCount[j] = 1

\* both jobs were submitted before the destructor began, two workers, and the
\* destructor has returned
C1_Witness ==
    /\ numOfWorkers = MaxWorkers
    /\ ShutdownReturned
    /\ returnedBefore = Jobs
    /\ \A j \in Jobs : execCount[j] = 1

\* C2 -- Graceful drain: the jobs that were in the queue when stop was set
\* have all been dequeued and run to completion by the time the last worker
\* is Stopped (and so before ~ThreadPool returns, which joins every worker).
C2_GracefulDrain ==
    (numOfWorkers >= 1 /\ AllStopped) =>
        \A j \in queuedAtStop : dequeuedBy[j] # <<>> /\ execCount[j] = 1

\* stop was set with K = MaxJobs jobs still queued, and every worker has
\* stopped
C2_Witness ==
    /\ numOfWorkers = MaxWorkers
    /\ AllStopped
    /\ queuedAtStop = Jobs

\* C3 -- Shutdown terminates (under FairSpec): once the first run of
\* ~ThreadPool has set stop and issued notify_all, eventually every worker is
\* Stopped and ~ThreadPool has returned -- unless a job raised, which ends the
\* process and is outside the claim's assumption that every job terminates.
C3_ShutdownTerminates ==
    (sdRuns = 0 /\ sdpc = "join") ~> ((ShutdownReturned /\ AllStopped) \/ ~Alive)

\* the destructor has returned from a pool of two workers, all Stopped
C3_Witness ==
    /\ numOfWorkers = MaxWorkers
    /\ ShutdownReturned
    /\ AllStopped
    /\ Alive

\* C4 (as claimed) -- FIFO per submitter: if the client submits job a before
\* job b, then job() of a is called no later than job() of b.
C4_FifoStartOrder ==
    \A a, b \in Jobs : (a < b /\ b \in started) => a \in started

\* C4 (amended) -- if the client submits a before b, then a is removed from
\* the queue no later than b is, for every worker count; and with a single
\* worker job() of a is also called before job() of b.
C4_FifoDequeueOrder ==
    /\ \A a, b \in Jobs : (a < b /\ dequeuedBy[b] # <<>>) => dequeuedBy[a] # <<>>
    /\ numOfWorkers = 1 => C4_FifoStartOrder

\* two workers hold the two jobs, dequeued in order, and the later one has
\* been started first
C4_Witness ==
    /\ numOfWorkers = MaxWorkers
    /\ dequeuedBy[1] # <<>> /\ dequeuedBy[2] # <<>>
    /\ 2 \in started /\ 1 \notin started

\* C5 -- Mutual exclusion of dequeue: no job is removed from the queue more
\* than once (so the sets of jobs dequeued by two workers are disjoint), and
\* no two workers hold the same job.
C5_DequeueExclusive ==
    /\ \A j \in Jobs : Len(dequeuedBy[j]) <= 1
    /\ \A v, w \in Workers : (v # w /\ wjob[v] # NoJob) => wjob[v] # wjob[w]

\* two distinct workers have each dequeued a job and hold them at once
C5_Witness ==
    /\ numOfWorkers = MaxWorkers
    /\ \E v, w \in Workers :
          /\ v # w
          /\ dequeuedBy[1] = <<v>> /\ dequeuedBy[2] = <<w>>
          /\ wjob[v] = 1 /\ wjob[w] = 2

\* C6 (as claimed) -- every job that enqueue accepted is eventually executed.
\* Once every worker is Stopped nothing is executed any more, so the claim
\* requires that a job accepted by a finished enqueue call has been executed
\* by then.
C6_AcceptedIsExecuted ==
    (numOfWorkers >= 1 /\ AllStopped /\ spc = "idle") =>
        \A j \in Accepted : execCount[j] >= 1

\* C7 -- Post-shutdown submission: the push of enqueue appends its job
\* whatever the state (there is no test of stop), and while every worker is
\* Stopped a queued job stays in the queue and nothing is executed.
C7_PostShutdownSubmit ==
    [][ /\ (spc = "push" /\ spc' # spc) => jobs' = Append(jobs, snext)
        /\ AllStopped => /\ \A j \in Range(jobs) : j \in Range(jobs')
                         /\ execCount' = execCount ]_vars

\* a job was accepted after stop, enqueue has returned, every worker is
\* Stopped (the destructor is still in its join loop) and the job is queued
C7_Witness ==
    /\ numOfWorkers >= 1
    /\ stop /\ AllStopped
    /\ sdRuns = 0 /\ sdpc = "join"
    /\ spc = "idle"
    /\ jobs # <<>>
    /\ Range(jobs) \cap queuedAtStop = {}

\* a step of the owner thread: it enters or executes the body of ~ThreadPool
OwnerMoved == DCall \/ OwnerStep

C9_FaultIsolation == crash # "job_fault"

\* C10 -- The stop flag is monotonic: false after construction, set only by
\* line 99 of ~ThreadPool, and never reset.
C10_StopMonotonic ==
    /\ ~stop
    /\ [][ /\ stop => stop'
           /\ stop' # stop => (sdpc = "set" /\ sdpc' = "unlock") ]_vars

\* stop is still true after the client has submitted all its jobs, the
\* workers have run them and exited, and the body has been run twice
C10_Witness ==
    /\ numOfWorkers = MaxWorkers
    /\ stop
    /\ sdRuns = 2
    /\ snext > MaxJobs
    /\ AllStopped
    /\ \A j \in Jobs : execCount[j] = 1

\* The three worker states of the design: a worker is Waiting from its start
\* until cv.wait has returned with the predicate true, Running from there
\* until job() has returned, and Stopped once worker_loop has returned.
Waiting(w) == wpc[w] \in {"lock", "wait", "blocked", "relock"}
Running(w) == wpc[w] \in {"check", "fetch", "unlock", "call", "running"}
Stopped(w) == wpc[w] = "stopped"

\* C11 -- Construction postcondition: in the state in which the constructor
\* returns, exactly numOfWorkers workers exist, each of them Waiting (none
\* Running, none Stopped, none has dequeued or holds a job), stop is false and
\* the queue is empty.
C11_ConstructionPost ==
    [][ CReturn =>
          /\ Cardinality({w \in Workers : wpc'[w] # "unborn"}) = numOfWorkers
          /\ \A w \in Workers : Waiting(w)' /\ wjob'[w] = NoJob
          /\ \A j \in Jobs : dequeuedBy'[j] = <<>>
          /\ ~stop'
          /\ jobs' = <<>> ]_vars

\* the constructor of a pool of two workers has just returned; one worker is
\* already blocked in cv.wait and the other has not taken the mutex yet
C11_Witness ==
    /\ numOfWorkers = MaxWorkers
    /\ constructed
    /\ spc = "idle" /\ snext = 1 /\ sdpc = "idle" /\ sdRuns = 0
    /\ \E v, w \in Workers : wpc[v] = "blocked" /\ wpc[w] = "lock"

\* C12 -- Zero-worker pool: ThreadPool(0) is constructed without error; every
\* enqueue appends its job, so the queue holds every accepted job in order;
\* no job is ever dequeued, started or executed; and ~ThreadPool returns with
\* those jobs still queued.
C12_ZeroWorkerPool ==
    numOfWorkers = 0 =>
        /\ Alive
        /\ Range(jobs) = Accepted /\ Len(jobs) = Cardinality(Accepted)
        /\ started = {}
        /\ \A j \in Jobs : dequeuedBy[j] = <<>> /\ execCount[j] = 0
        /\ (sdpc = "join" => ji > numOfWorkers)

\* a pool of zero workers: both jobs were accepted, ~ThreadPool has returned
\* and the jobs are still in the queue
C12_Witness ==
    /\ numOfWorkers = 0
    /\ constructed
    /\ ShutdownReturned
    /\ snext > MaxJobs
    /\ Len(jobs) = MaxJobs

\* C13 -- No lost wakeup on submit (under FairSpec): in a pool of at least
\* one worker, whenever the queue is non-empty while stop is false, the queue
\* is eventually drained, so every job that was in it has been dequeued
\* (unless a job raises and ends the process), although notify_one is issued
\* after the mutex is released and may find no worker blocked.  In
\* particular the workers do not stay blocked forever over a non-empty queue.
C13_NoLostWakeup ==
    (numOfWorkers >= 1 /\ jobs # <<>> /\ ~stop) ~> (jobs = <<>> \/ ~Alive)

\* the first job has been dequeued while stop is false and before the
\* notify_one of its enqueue call has been issued: no notification woke the
\* worker that took it
C13_Witness ==
    /\ numOfWorkers = MaxWorkers
    /\ ~stop /\ sdpc = "idle" /\ sdRuns = 0
    /\ spc = "notify" /\ snext = 1
    /\ dequeuedBy[1] # <<>>

\* C14 -- A worker never pops from an empty queue: whenever a worker is about
\* to execute jobs.front()/jobs.pop() (lines 48-49) the queue is non-empty and
\* that worker holds the mutex, and no pop of an empty queue has happened --
\* whatever woke the worker (a notification for a job another worker took,
\* the shutdown broadcast, or nothing at all).
C14_NoPopFromEmpty ==
    /\ \A w \in Workers :
          wpc[w] = "fetch" => (jobs # <<>> /\ mu = WorkerThread(w))
    /\ crash # "pop_empty"

\* one worker is about to pop the only queued job while the other, woken as
\* well, is waiting to re-acquire the mutex and will find the queue empty
C14_Witness ==
    /\ numOfWorkers = MaxWorkers
    /\ ~stop
    /\ Len(jobs) = 1
    /\ \E v, w \in Workers : wpc[v] = "fetch" /\ wpc[w] = "relock"

\* worker w leaves the state Stopped, removes a job or finishes one
WorkerActs(w) ==
    \/ wpc'[w] # wpc[w]
    \/ wjob'[w] # wjob[w]
    \/ \E j \in Jobs : dequeuedBy'[j] # dequeuedBy[j] /\ wjob'[w] = j

\* C15 -- A worker becomes Stopped only by a step of the exit test (line 44)
\* taken while it holds the mutex with stop true and the queue empty; a
\* worker that finds the queue non-empty at that test goes on to dequeue a
\* job, also when stop is true; and a Stopped worker never moves, dequeues or
\* executes again.
C15_StopOnlyWhenDrained ==
    [][ \A w \in Workers :
          /\ (~Stopped(w) /\ Stopped(w)') =>
                (wpc[w] = "check" /\ mu = WorkerThread(w) /\ stop /\ jobs = <<>>)
          /\ (wpc[w] = "check" /\ wpc'[w] # "check" /\ jobs # <<>>) =>
                (wpc'[w] = "fetch" /\ mu' = WorkerThread(w))
          /\ Stopped(w) => ~WorkerActs(w) ]_vars

\* one worker is already Stopped while the other is running a job that was
\* still queued when stop was set, and so was dequeued with stop true
C15_Witness ==
    /\ numOfWorkers = MaxWorkers
    /\ stop
    /\ \E v, w \in Workers :
          /\ Stopped(v)
          /\ wpc[w] = "running" /\ wjob[w] \in queuedAtStop

\* C16 -- Jobs run outside the critical section: a worker that is calling or
\* executing job() (line 55) does not hold the mutex, so the mutex is free
\* for enqueue and for the other workers however many jobs are running.
C16_JobsRunUnlocked ==
    \A w \in Workers :
        wpc[w] \in {"call", "running"} => mu # WorkerThread(w)

\* while one worker is executing a job, the client holds the mutex and is
\* about to push the next job
C16_Witness ==
    /\ \E w \in Workers : wpc[w] = "running"
    /\ mu = ClientThread
    /\ spc = "push"

\* the threads that are between taking and releasing the mutex
InCritical ==
    {WorkerThread(w) : w \in {v \in Workers : wpc[v] \in {"wait", "check", "fetch", "unlock"}}}
        \cup (IF spc \in {"push", "unlock"} THEN {ClientThread} ELSE {})
        \cup (IF sdpc \in {"set", "unlock"} THEN {OwnerThread} ELSE {})

\* C17 -- Shared state is touched only under the single mutex: a thread that
\* is at the wake predicate, the exit test, the dequeue, the push of enqueue
\* or the write of stop is the holder of the mutex, so at most one thread is
\* there at a time; and every step that changes the queue or the stop flag
\* is taken by the holder, which keeps the mutex over that step.
C17_SharedStateUnderMutex ==
    /\ [](InCritical \subseteq {mu} /\ Cardinality(InCritical) <= 1)
    /\ [][ /\ jobs' # jobs =>
                /\ mu' = mu
                /\ \/ mu = ClientThread /\ spc = "push"
                   \/ \E w \in Workers : mu = WorkerThread(w) /\ wpc[w] = "fetch"
           /\ stop' # stop => (mu' = mu /\ mu = OwnerThread /\ sdpc = "set") ]_vars

\* the client holds the mutex for its push while a worker and the owner are
\* both waiting to take it
C17_Witness ==
    /\ mu = ClientThread /\ spc = "push"
    /\ sdpc = "lock"
    /\ \E w \in Workers : wpc[w] \in {"lock", "relock"}

\* C18 -- Shutdown return postcondition: in the step in which the body of
\* ~ThreadPool returns, every worker is Stopped and has been joined and no
\* job is being executed; it never returns while a worker is Waiting or
\* Running.
C18_ShutdownPost ==
    [][ sdRuns' # sdRuns =>
          /\ \A w \in Workers : Stopped(w) /\ ~Waiting(w) /\ ~Running(w)
          /\ \A w \in Workers : wjob[w] = NoJob /\ ~joinable[w] ]_vars

\* the first run of ~ThreadPool over two workers has just returned; both
\* jobs were executed and the queue is empty
C18_Witness ==
    /\ numOfWorkers = MaxWorkers
    /\ sdRuns = 1 /\ sdpc = "idle"
    /\ jobs = <<>>
    /\ \A j \in Jobs : execCount[j] = 1
    /\ \A w \in Workers : Stopped(w)

\* a step of the client thread: it enters enqueue or executes one of its
\* statements
EnqueueStep == SCall \/ ClientStep

\* the workers whose position differs before and after a step
Moved == {w \in Workers : wpc'[w] # wpc[w]}

\* C19 -- Effect and frame of submit: the push of enqueue puts the job at the
\* tail, so the queue grows by exactly one and the jobs already queued keep
\* their places; no other step of enqueue changes the queue; no step of
\* enqueue changes stop, the number of workers, the job a worker holds or
\* whether a worker is Waiting, Running or Stopped; and only the notify_one
\* moves a worker: exactly one blocked worker when there is one (not all of
\* them), none otherwise.
C19_SubmitEffectAndFrame ==
    [][ EnqueueStep =>
          /\ IF spc = "push"
                THEN /\ Len(jobs') = Len(jobs) + 1
                     /\ jobs'[Len(jobs')] = snext
                     /\ SubSeq(jobs', 1, Len(jobs)) = jobs
                ELSE jobs' = jobs
          /\ stop' = stop
          /\ numOfWorkers' = numOfWorkers /\ DOMAIN wpc' = DOMAIN wpc
          /\ wjob' = wjob
          /\ \A w \in Workers : /\ Waiting(w)' = Waiting(w)
                                /\ Running(w)' = Running(w)
                                /\ Stopped(w)' = Stopped(w)
          /\ \A w \in Moved : spc = "notify" /\ wpc[w] = "blocked" /\ wpc'[w] = "relock"
          /\ Cardinality(Moved) <= 1
          /\ (spc = "notify" /\ \E w \in Workers : wpc[w] = "blocked") =>
                Cardinality(Moved) = 1 ]_vars

\* enqueue of the first job has returned with stop false: the job is queued,
\* and of the two workers that were blocked its notify_one has woken one
C19_Witness ==
    /\ numOfWorkers = MaxWorkers
    /\ ~stop /\ sdpc = "idle"
    /\ spc = "idle" /\ snext = 2
    /\ jobs = <<1>>
    /\ \E v, w \in Workers : wpc[v] = "relock" /\ wpc[w] = "blocked"

\* C20 -- One job per wake cycle: a dequeue step of a worker removes exactly
\* one job, the head, is taken only when the worker holds no unfinished job,
\* and is followed by the release of the mutex; the worker reaches the next
\* dequeue only through the return of job(), a new acquisition of the mutex,
\* a new evaluation of the wake predicate and the exit test.  A worker gives
\* up the job it holds only when job() has returned, so it never holds two
\* unfinished jobs.
C20_OneJobPerCycle ==
    [][ \A w \in Workers :
          /\ (wpc[w] = "fetch" /\ wpc'[w] # "fetch") =>
                /\ wjob[w] = NoJob
                /\ Len(jobs') = Len(jobs) - 1
                /\ wjob'[w] = Head(jobs) /\ jobs' = Tail(jobs)
                /\ wpc'[w] = "unlock"
          /\ (wjob'[w] # wjob[w] /\ wjob'[w] # NoJob) => wpc[w] = "fetch"
          /\ (wpc[w] = "unlock" /\ wpc'[w] # "unlock") =>
                (wpc'[w] = "call" /\ mu = WorkerThread(w) /\ mu' = NoThread)
          /\ (wjob[w] # NoJob /\ wjob'[w] = NoJob) =>
                /\ wpc[w] = "running" /\ wpc'[w] = "lock"
                /\ execCount'[wjob[w]] = execCount[wjob[w]] + 1
          /\ (wpc'[w] = "wait" /\ wpc[w] # "wait") =>
                (wpc[w] \in {"lock", "relock"} /\ mu = NoThread /\ mu' = WorkerThread(w))
          /\ (wpc'[w] = "check" /\ wpc[w] # "check") => (wpc[w] = "wait" /\ WakePredicate)
          /\ (wpc'[w] = "fetch" /\ wpc[w] # "fetch") => wpc[w] = "check" ]_vars

\* in a pool of two workers, one worker has run the first job to completion
\* and has then dequeued the second one in a later cycle
C20_Witness ==
    /\ numOfWorkers = MaxWorkers
    /\ \E w \in Workers :
          /\ dequeuedBy[1] = <<w>> /\ dequeuedBy[2] = <<w>>
          /\ execCount[1] = 1
          /\ wjob[w] = 2 /\ wpc[w] = "unlock"

\* the workers the constructor has spawned: the elements of `workers`
Spawned == {w \in Workers : wpc[w] # "unborn"}

\* the jobs that have left the queue and have not been run to completion
InFlight == {j \in Accepted : j \notin Range(jobs) /\ execCount[j] = 0}

\* the jobs for which job() has been called and has not returned
Executing == {j \in started : execCount[j] = 0}

\* C21 -- Bounded parallelism: once the constructor has returned the set of
\* workers never changes, and the number of jobs dequeued but not yet
\* completed is at most numOfWorkers in every state; in a pool of one worker
\* at most one job is executing at a time, and a job is started only after
\* every job queued before it has run to completion.
C21_BoundedParallelism ==
    /\ [](/\ Cardinality(InFlight) <= numOfWorkers
          /\ numOfWorkers = 1 =>
                /\ Cardinality(Executing) <= 1
                /\ \A a, b \in Jobs : (a < b /\ b \in started) => execCount[a] >= 1)
    /\ [][ /\ numOfWorkers' = numOfWorkers
           /\ constructed => (Spawned' = Spawned /\ Spawned = Workers) ]_vars

\* a pool of one worker has run the first job to completion and is now
\* executing the second one: one job in flight, as many as there are workers
C21_Witness ==
    /\ numOfWorkers = 1
    /\ execCount[1] = 1
    /\ wpc[1] = "running" /\ wjob[1] = 2
    /\ InFlight = {2}

\* both threads have returned and every item was pushed and popped once
PCDone ==
    /\ ppc = "done" /\ cpc = "done"
    /\ buffer = <<>>
    /\ pushed = itemsToProduce /\ popped = itemsToProduce

\* C22 -- Bounded-buffer producer/consumer (under PCFairSpec): the producer
\* and the consumer are never both blocked in cond.wait, the buffer holds
\* between 0 and maxBufferSize items, the consumer pops only from a non-empty
\* buffer, and eventually both threads have returned with the buffer empty
\* after exactly itemsToProduce pushes and itemsToProduce pops.
C22_BoundedBuffer ==
    /\ [](/\ ~(ppc = "blocked" /\ cpc = "blocked")
          /\ Len(buffer) \in 0..maxBufferSize
          /\ cpc = "pop" => buffer # <<>>
          /\ pcCrash # "pop_empty"
          /\ pushed <= itemsToProduce /\ popped <= pushed)
    /\ <>[]PCDone

\* the producer is blocked on a full buffer with items still to produce,
\* while the consumer, woken from its wait on the empty buffer, has not yet
\* re-acquired the mutex
C22_Witness ==
    /\ itemsToProduce = MaxItems
    /\ ppc = "blocked" /\ val > 0
    /\ Len(buffer) = maxBufferSize
    /\ cpc = "relock" /\ popped = 0

\* the producer is in its buffer-filling section: after its acquire and
\* before its release
InFill == prodpc \in {"test", "write", "print", "release"}

\* the consumer is in its buffer-reading section: after its acquire and
\* before its release
InRead == conspc \in {"test", "read", "clear", "release"}

\* C23 -- Semaphore hand-off: the two semaphore counters never sum to more
\* than 1 and no release overflows; the filling section of produce() and the
\* reading section of consume() never overlap; the rounds alternate, produce
\* first: a produce round begins only when as many consume rounds as produce
\* rounds are complete, a consume round only when one more produce round is;
\* and every element the consumer reads holds the value a completed produce
\* round wrote.
C23_SemaphoreHandOff ==
    /\ [](/\ signal_to_producer + signal_to_consumer <= 1
          /\ semCrash = "none"
          /\ ~(InFill /\ InRead)
          /\ consumedRounds <= producedRounds
          /\ producedRounds <= consumedRounds + 1)
    /\ [][ /\ (~InFill /\ InFill') => producedRounds = consumedRounds
           /\ (~InRead /\ InRead') => producedRounds = consumedRounds + 1
           /\ ConsumeRead =>
                /\ ~InFill
                /\ producedRounds = consumedRounds + 1
                /\ sbuffer[consume_i] = Cube(consume_i + 1) ]_semVars

\* the consumer is reading the buffer of the second produce round while the
\* producer waits at its acquire
C23_Witness ==
    /\ producedRounds = 2 /\ consumedRounds = 1
    /\ conspc = "read" /\ consume_i = 2
    /\ prodpc = "acquire"
    /\ signal_to_producer = 0 /\ signal_to_consumer = 0
====
